---- MODULE Spec2Model ----
(***************************************************************************)
(* HealthcareAssistant (src/app.py): loading of the two CSV tables,        *)
(* training of the TF-IDF / MultinomialNB pipeline, predict_disease,       *)
(* get_precautions and find_nearby_doctors; LocationService                *)
(* (src/location_service.py): IP geolocation, geocoding and the search for *)
(* facilities; main() of the Streamlit script and main() of launcher.py.   *)
(* Spec follows the assistant, LocationSpec the lookups, QuerySpec and     *)
(* RepeatSpec the queries of a loaded assistant, SessionSpec the browser   *)
(* sessions of one process, LauncherSpec the launcher.                     *)
(*                                                                         *)
(* Text is a sequence of Unicode code points (97 = "a", 65 = "A",          *)
(* 32 = " ", 95 = "_", 46 = "."), so that str.lower, str.strip,            *)
(* str.replace, str.split, substring and regular-expression search are     *)
(* computed character by character.  A CSV cell is a record                *)
(* [na, s]: na = TRUE is pandas' NaN (a blank cell), otherwise s is the    *)
(* text of the cell.                                                       *)
(*                                                                         *)
(* A probability is a pair weight / total: predict_proba returns the       *)
(* vector w[i] / Sum(w) (exp of the joint log likelihood, normalised), and *)
(* every comparison of the code is done on the integers w[i] and Sum(w).   *)
(***************************************************************************)
EXTENDS Integers, Sequences, FiniteSets, TLC

VARIABLES
    files,          \* the two CSV files on disk, as found by pd.read_csv
    argsort_ties,   \* how this build's np.argsort (quicksort) orders equal keys
    pc,             \* position in HealthcareAssistant.__init__
    diseases_df,    \* self.diseases_df
    precautions_df, \* self.precautions_df
    model,          \* self.model
    symptoms_list,  \* self.symptoms_list
    diseases_list,  \* self.diseases_list
    X_train,        \* prepare_model's training documents
    y_train,        \* prepare_model's training labels
    ret,            \* the last query and what it returned
    gmaps_client,   \* self.location_service.gmaps_client is not None
    lookup,         \* the last location or facility lookup and what it returned
    session_state,  \* st.session_state of each session: its assistant, if any
    script_runs,    \* the runs of main() and the constructions, by session
    environment,    \* what the launcher finds: interpreter and packages
    launcher,       \* position of launcher.main() and the functions it called
    first_answer    \* history: the first predict_disease call and its results

\* the state of the LocationService and of its last lookup
location_vars == <<gmaps_client, lookup>>

\* the state of one HealthcareAssistant and of the files that it reads
assistant_vars == <<files, argsort_ties, pc, diseases_df, precautions_df, model,
                    symptoms_list, diseases_list, X_train, y_train, ret>>

\* the state of the Streamlit sessions and of the launcher
process_vars == <<session_state, script_runs, environment, launcher>>

vars == <<files, argsort_ties, pc, diseases_df, precautions_df, model,
          symptoms_list, diseases_list, X_train, y_train, ret,
          gmaps_client, lookup,
          session_state, script_runs, environment, launcher, first_answer>>

----------------------------------------------------------------------------
(* Bounds of the model.                                                    *)

\* rows of a generated disease table
MaxRows == 2
\* rows of a generated precaution table
MaxPrecRows == 2
\* classes of the table that has more classes than predict_disease returns
MaxClasses == 6
\* classes of the table in which every class prior is below the threshold
ManyClasses == 101

\* browser sessions of one Streamlit process
MaxSessions == 3

\* runs of the script within one session
MaxReruns == 3

\* required packages that are not installed when the launcher starts
MaxMissing == 2

----------------------------------------------------------------------------
(* Text.                                                                   *)

NaN == [na |-> TRUE, s |-> <<>>]
Cell(s) == [na |-> FALSE, s |-> s]

SetMin(S) == CHOOSE x \in S : \A y \in S : x <= y
SetMax(S) == CHOOSE x \in S : \A y \in S : y <= x

\* str.isspace of one character
IsSpace(c) == c \in {9, 10, 11, 12, 13, 32}

\* \w of the vectorizer's token pattern: letters, digits, underscore
IsWordChar(c) == c \in (48..57) \cup (65..90) \cup {95} \cup (97..122)

LowerChar(c) == IF c \in 65..90 THEN c + 32 ELSE c

\* str.lower
Lower(s) == [i \in 1..Len(s) |-> LowerChar(s[i])]

\* str.strip
Strip(s) ==
    LET keep == {i \in 1..Len(s) : ~IsSpace(s[i])}
    IN  IF keep = {} THEN <<>> ELSE SubSeq(s, SetMin(keep), SetMax(keep))

\* str.replace('_', ' ')
ReplaceUnderscore(s) == [i \in 1..Len(s) |-> IF s[i] = 95 THEN 32 ELSE s[i]]

\* str.split(): the maximal runs of non-whitespace characters, in order
RECURSIVE SplitFrom(_, _, _)
SplitFrom(s, i, cur) ==
    IF i > Len(s)
    THEN IF cur = <<>> THEN <<>> ELSE <<cur>>
    ELSE IF IsSpace(s[i])
         THEN (IF cur = <<>> THEN <<>> ELSE <<cur>>) \o SplitFrom(s, i + 1, <<>>)
         ELSE SplitFrom(s, i + 1, Append(cur, s[i]))

Split(s) == SplitFrom(s, 1, <<>>)

\* ' '.join(parts)
RECURSIVE Join(_)
Join(parts) ==
    IF parts = <<>> THEN <<>>
    ELSE IF Len(parts) = 1 THEN parts[1]
    ELSE parts[1] \o <<32>> \o Join(Tail(parts))

\* s < t in Python's ordering of str (code point by code point)
RECURSIVE LexLess(_, _)
LexLess(s, t) ==
    IF t = <<>> THEN FALSE
    ELSE IF s = <<>> THEN TRUE
    ELSE IF s[1] # t[1] THEN s[1] < t[1]
    ELSE LexLess(Tail(s), Tail(t))

----------------------------------------------------------------------------
(* The vectorizer: TfidfVectorizer(lowercase=True, stop_words='english'),  *)
(* token pattern (?u)\b\w\w+\b.                                            *)

\* part of sklearn's English stop-word list: "the", "and", "of"
StopWords == {<<116, 104, 101>>, <<97, 110, 100>>, <<111, 102>>}

\* the maximal runs of word characters of s, in order
RECURSIVE WordRunsFrom(_, _, _)
WordRunsFrom(s, i, cur) ==
    IF i > Len(s)
    THEN IF cur = <<>> THEN <<>> ELSE <<cur>>
    ELSE IF ~IsWordChar(s[i])
         THEN (IF cur = <<>> THEN <<>> ELSE <<cur>>) \o WordRunsFrom(s, i + 1, <<>>)
         ELSE WordRunsFrom(s, i + 1, Append(cur, s[i]))

\* the terms the vectorizer extracts from a text: lower-cased runs of two or
\* more word characters that are no stop word
Tokens(text) ==
    LET runs == WordRunsFrom(Lower(text), 1, <<>>)
    IN  {runs[i] : i \in {j \in 1..Len(runs) :
                            Len(runs[j]) >= 2 /\ runs[j] \notin StopWords}}

Vocabulary(docs) == UNION {Tokens(docs[i]) : i \in 1..Len(docs)}

\* the query's TF-IDF vector is all zeros: no term of it is in the vocabulary
ZeroVector(text, vocabulary) == Tokens(text) \cap vocabulary = {}

----------------------------------------------------------------------------
(* Sequences.                                                              *)

\* w[lo] + ... + w[hi], by halving
RECURSIVE SumRange(_, _, _)
SumRange(w, lo, hi) ==
    IF lo > hi THEN 0
    ELSE IF lo = hi THEN w[lo]
    ELSE LET mid == (lo + hi) \div 2
         IN  SumRange(w, lo, mid) + SumRange(w, mid + 1, hi)

Sum(w) == SumRange(w, 1, Len(w))

\* f with every value computed once (f @@ <<>> equals f)
Strict(f) == f @@ <<>>

\* the elements of a finite set of numbers, ascending
Ascending(I) ==
    LET below == Strict([i \in I |-> Cardinality({j \in I : j < i})])
    IN  Strict([p \in 1..Cardinality(I) |-> CHOOSE i \in I : below[i] = p - 1])

Reverse(s) == [i \in 1..Len(s) |-> s[Len(s) + 1 - i]]

\* s[-k:]
LastK(s, k) == IF Len(s) <= k THEN s ELSE SubSeq(s, Len(s) - k + 1, Len(s))

\* the distinct elements of s in order of first appearance (pandas unique)
Unique(s) ==
    LET first == Ascending({i \in 1..Len(s) : \A j \in 1..(i - 1) : s[j] # s[i]})
    IN  Strict([p \in 1..Len(first) |-> s[first[p]]])

\* sorted(S) for a set of strings (also np.unique of the training labels)
Sorted(S) ==
    LET below == Strict([x \in S |-> Cardinality({y \in S : LexLess(y, x)})])
    IN  Strict([p \in 1..Cardinality(S) |-> CHOOSE x \in S : below[x] = p - 1])

Range(s) == {s[i] : i \in 1..Len(s)}

----------------------------------------------------------------------------
(* The CSV files the process may find on disk.                             *)

\* symptom cells as they stand in DiseaseAndSymptoms.csv
ItchCell     == Cell(<<32, 105, 116, 99, 104>>)                    \* " itch"
SkinRashCell == Cell(<<115, 107, 105, 110, 95, 114, 97, 115, 104>>) \* "skin_rash"
BlankCell    == Cell(<<32, 32>>)                                   \* "  "
TheCell      == Cell(<<116, 104, 101>>)                            \* "the"
UnderscoreItchCell == Cell(<<95, 105, 116, 99, 104>>)              \* "_itch"
SkinRashTwiceCell  == Cell(<<115, 107, 105, 110, 95, 95, 114, 97, 115, 104>>)  \* "skin__rash"

\* disease names
Flu     == <<70, 108, 117>>                     \* "Flu"
Acne    == <<65, 99, 110, 101>>                 \* "Acne"
BirdFlu == <<66, 105, 114, 100, 32, 70, 108, 117>>  \* "Bird Flu"

\* the k-th of a family of distinct one-letter disease names, in sorted order
ClassName(k) == <<256 + k>>

MissingFile == [kind |-> "missing", ncols |-> 0, rows |-> <<>>]  \* FileNotFoundError
NoDataFile  == [kind |-> "nodata", ncols |-> 0, rows |-> <<>>]   \* EmptyDataError
Table(ncols, rows) == [kind |-> "table", ncols |-> ncols, rows |-> rows]

SeqsUpTo(S, n) == UNION {[1..k -> S] : k \in 0..n}

DiseaseRow(d, syms) == [Disease |-> d, Symptoms |-> syms]

\* the Symptom_1, Symptom_2 cells of a row of a generated table
SymptomRows ==
    { <<NaN, NaN>>,
      <<ItchCell, NaN>>,
      <<SkinRashCell, ItchCell>>,
      <<BlankCell, BlankCell>>,
      <<TheCell, BlankCell>> }

DiseaseRows == {DiseaseRow(d, syms) : d \in {Flu, Acne}, syms \in SymptomRows}

\* n classes, one row each
UniformTable(n) ==
    Table(2, [k \in 1..n |-> DiseaseRow(ClassName(k), <<SkinRashCell, BlankCell>>)])

\* n classes, the k-th with k rows
WeightedTable(n) ==
    Table(2, [r \in 1..((n * (n + 1)) \div 2) |->
                 DiseaseRow(ClassName(SetMin({k \in 1..n : (k * (k + 1)) \div 2 >= r})),
                            <<SkinRashCell, BlankCell>>)])

\* symptoms written with an underscore in front and with two in a row, a
\* disease on two rows and a row without any symptom
UnderscoreTable ==
    Table(2, <<DiseaseRow(Flu, <<UnderscoreItchCell, SkinRashTwiceCell>>),
               DiseaseRow(Acne, <<SkinRashCell, ItchCell>>),
               DiseaseRow(Flu, <<BlankCell, ItchCell>>),
               DiseaseRow(Acne, <<BlankCell, NaN>>)>>)

DiseaseFiles ==
    {MissingFile, NoDataFile}
    \cup {Table(2, rows) : rows \in SeqsUpTo(DiseaseRows, MaxRows)}
    \cup {UniformTable(MaxClasses), WeightedTable(MaxClasses), UniformTable(ManyClasses)}
    \cup {UnderscoreTable}

BasicDiseaseFiles == {MissingFile, UniformTable(1)}

\* precaution cells
RestCell  == Cell(<<32, 114, 101, 115, 116, 32>>)   \* " rest "
DrinkCell == Cell(<<100, 114, 105, 110, 107>>)      \* "drink"

PrecautionRow(d, ps) == [Disease |-> d, Precautions |-> ps]

\* the Precaution_1 .. Precaution_4 cells of a row of a generated table
PrecautionCells ==
    { <<RestCell, NaN, BlankCell, DrinkCell>>,
      <<NaN, NaN, NaN, BlankCell>>,
      <<DrinkCell, RestCell, NaN, NaN>> }

PrecautionRows ==
    {PrecautionRow(d, ps) : d \in {Cell(Flu), Cell(BirdFlu), NaN}, ps \in PrecautionCells}

PrecautionFiles ==
    {MissingFile, NoDataFile}
    \cup {Table(4, rows) : rows \in SeqsUpTo(PrecautionRows, MaxPrecRows)}

BasicPrecautionFile ==
    Table(4, <<PrecautionRow(Cell(Flu), <<RestCell, NaN, BlankCell, DrinkCell>>)>>)

\* the symptom texts a user submits: "", "the", "ITCH", "zz"
QueryTexts == { <<>>, <<116, 104, 101>>, <<73, 84, 67, 72>>, <<122, 122>> }

\* the disease names a user looks up: "FLU", "flu shot", "f.u", "zz", "", " "
DiseaseQueries ==
    { <<70, 76, 85>>, <<102, 108, 117, 32, 115, 104, 111, 116>>, <<102, 46, 117>>,
      <<122, 122>>, <<>>, <<32>> }

----------------------------------------------------------------------------
(* State after the assignments of __init__ (src/app.py lines 33-38).       *)

NoneDF == [none |-> TRUE, ncols |-> 0, rows |-> <<>>]
DF(file) == [none |-> FALSE, ncols |-> file.ncols, rows |-> file.rows]

NoneModel ==
    [none |-> TRUE, fitted |-> FALSE, classes_ |-> <<>>, class_count_ |-> <<>>,
     vocabulary_ |-> {}, weights |-> <<>>]

\* Pipeline([...]) before fit
UnfittedPipeline == [NoneModel EXCEPT !.none = FALSE]

NoCall ==
    [op |-> "none", arg |-> <<>>, raised |-> FALSE, caught |-> FALSE,
     branch |-> "none", predictions |-> <<>>, confidences |-> <<>>, precautions |-> <<>>]

\* no lookup was made yet
NoLookup ==
    [op |-> "none", mode |-> "none", searched |-> FALSE,
     origin |-> [num |-> TRUE, lat |-> 0, lon |-> 0],
     located |-> FALSE, coords |-> [num |-> TRUE, lat |-> 0, lon |-> 0],
     hospitals |-> <<>>, raised |-> FALSE, caught |-> FALSE, path |-> "none",
     calls |-> <<>>, offered |-> <<>>]

Sessions == 1..MaxSessions

\* required_packages of check_requirements, in its order
RequiredPackages ==
    <<"streamlit", "pandas", "numpy", "scikit-learn", "requests", "folium", "geopy">>

\* no session has run the script and the launcher has not started, on a
\* machine with a compatible interpreter and every package installed
NoProcess ==
    /\ session_state = [s \in Sessions |-> 0]
    /\ script_runs = [s \in Sessions |-> [runs |-> 0, constructed |-> 0]]
    /\ environment = [python_ok |-> TRUE,
                      packages |-> [i \in 1..Len(RequiredPackages) |-> "installed"]]
    /\ launcher = [pc |-> "not_started", called |-> <<>>, pip |-> <<>>]

\* The disease table, the precaution table and the sort's handling of ties
\* vary one at a time around the basic files.
Init ==
    /\ files \in {[diseases |-> f[1], precautions |-> f[2]] :
                    f \in (BasicDiseaseFiles \X PrecautionFiles)
                          \cup (DiseaseFiles \X {BasicPrecautionFile})}
    /\ argsort_ties \in IF files.precautions = BasicPrecautionFile
                        THEN {"index_asc", "index_desc"}
                        ELSE {"index_asc"}
    /\ pc = "load_data"
    /\ diseases_df = NoneDF
    /\ precautions_df = NoneDF
    /\ model = NoneModel
    /\ symptoms_list = <<>>
    /\ diseases_list = <<>>
    /\ X_train = <<>>
    /\ y_train = <<>>
    /\ ret = NoCall
    /\ gmaps_client = FALSE
    /\ lookup = NoLookup
    /\ NoProcess
    /\ first_answer = NoCall

----------------------------------------------------------------------------
(* load_data and clean_data.                                               *)

\* pandas reads a column whose cells are all blank as float64; Series.str
\* raises AttributeError on such a column
FloatColumn(rows, c) ==
    /\ Len(rows) > 0
    /\ \A r \in 1..Len(rows) : rows[r].Symptoms[c].na

CleanDataRaises(df) == \E c \in 1..df.ncols : FloatColumn(df.rows, c)

\* the symptom normalisation of clean_data and prepare_model
NormalizeSymptom(s) == ReplaceUnderscore(Strip(s))

CleanSymptomsList(df) ==
    LET all_symptoms ==
            UNION {{Strip(df.rows[r].Symptoms[c].s) :
                        r \in {k \in 1..Len(df.rows) : ~df.rows[k].Symptoms[c].na}} :
                   c \in 1..df.ncols}
    IN  Sorted({NormalizeSymptom(s) : s \in {x \in all_symptoms : x # <<>> /\ Strip(x) # <<>>}})

CleanDiseasesList(df) == Unique([r \in 1..Len(df.rows) |-> df.rows[r].Disease])

load_data ==
    /\ pc = "load_data"
    /\ LET d == files.diseases
           p == files.precautions
       IN  IF d.kind = "missing"
           THEN \* FileNotFoundError from the first read_csv, caught
                /\ pc' = "prepare_model"
                /\ UNCHANGED <<diseases_df, precautions_df, symptoms_list, diseases_list>>
           ELSE IF d.kind = "nodata"
           THEN \* EmptyDataError is not caught and leaves __init__
                /\ pc' = "crashed"
                /\ UNCHANGED <<diseases_df, precautions_df, symptoms_list, diseases_list>>
           ELSE /\ diseases_df' = DF(d)
                /\ IF p.kind = "missing"
                   THEN /\ pc' = "prepare_model"
                        /\ UNCHANGED <<precautions_df, symptoms_list, diseases_list>>
                   ELSE IF p.kind = "nodata"
                   THEN /\ pc' = "crashed"
                        /\ UNCHANGED <<precautions_df, symptoms_list, diseases_list>>
                   ELSE /\ precautions_df' = DF(p)
                        /\ diseases_list' = CleanDiseasesList(DF(d))
                        /\ IF CleanDataRaises(DF(d))
                           THEN /\ pc' = "crashed"
                                /\ UNCHANGED symptoms_list
                           ELSE /\ pc' = "prepare_model"
                                /\ symptoms_list' = CleanSymptomsList(DF(d))
    /\ UNCHANGED <<files, argsort_ties, model, X_train, y_train, ret>>
    /\ UNCHANGED location_vars
    /\ UNCHANGED process_vars
    /\ UNCHANGED first_answer

----------------------------------------------------------------------------
(* prepare_model.                                                          *)

\* the symptoms collected for one row: the non-blank cells, normalised, in
\* column order, those that normalise to '' dropped
RECURSIVE RowSymptomsFrom(_, _)
RowSymptomsFrom(cells, c) ==
    IF c > Len(cells) THEN <<>>
    ELSE (IF ~cells[c].na /\ NormalizeSymptom(cells[c].s) # <<>>
          THEN <<NormalizeSymptom(cells[c].s)>> ELSE <<>>)
         \o RowSymptomsFrom(cells, c + 1)

RowSymptoms(row) == RowSymptomsFrom(row.Symptoms, 1)

\* the rows that yield a training document
UsableRows(df) == {r \in 1..Len(df.rows) : RowSymptoms(df.rows[r]) # <<>>}

\* one document per disease: the rows after a disease's first row are left out
TrainingDocsByDisease(df) ==
    LET usable == Ascending({r \in UsableRows(df) :
                       \A q \in UsableRows(df) :
                           q < r => df.rows[q].Disease # df.rows[r].Disease})
    IN  Strict([p \in 1..Len(usable) |-> Join(RowSymptoms(df.rows[usable[p]]))])

\* X_train and y_train: one document and one label per usable row, in row order
TrainingDocs(df) ==
    LET usable == Ascending(UsableRows(df))
    IN  Strict([p \in 1..Len(usable) |-> Join(RowSymptoms(df.rows[usable[p]]))])

TrainingLabels(df) ==
    LET usable == Ascending(UsableRows(df))
    IN  Strict([p \in 1..Len(usable) |-> df.rows[usable[p]].Disease])

\* what predict_proba can return for a text with a non-zero vector: each
\* class's likelihood, up to the common normalisation
Likelihoods == {0, 1, 99}

\* uniform priors (fit_prior = False)
ClassCountsUniform(classes, y) == Strict([i \in 1..Len(classes) |-> 1])

\* MultinomialNB.fit: classes_ = np.unique(y); the class priors are the
\* class counts.  A text whose vector is all zeros gets the priors.
ClassCounts(classes, y) ==
    Strict([i \in 1..Len(classes) |-> Cardinality({j \in 1..Len(y) : y[j] = classes[i]})])

FittedWeights(counts, vocabulary) ==
    LET nonzero == {q \in QueryTexts : ~ZeroVector(q, vocabulary)}
        vectors == {w \in [1..Len(counts) -> Likelihoods] : Sum(w) > 0}
    IN  IF nonzero = {}
        THEN {[q \in QueryTexts |-> counts]}
        ELSE {[q \in QueryTexts |-> IF q \in nonzero THEN g[q] ELSE counts] :
                 g \in [nonzero -> vectors]}

\* a fit that makes one class of every training row
FitEveryRow(X, y) ==
    LET counts     == Strict([i \in 1..Len(y) |-> 1])
        vocabulary == Vocabulary(X)
    IN  {[none |-> FALSE, fitted |-> TRUE, classes_ |-> y,
          class_count_ |-> counts, vocabulary_ |-> vocabulary, weights |-> weights] :
            weights \in FittedWeights(counts, vocabulary)}

\* Pipeline.fit(X_train, y_train): the fitted pipelines it can produce
Fit(X, y) ==
    LET classes    == Sorted(Range(y))
        counts     == ClassCounts(classes, y)
        vocabulary == Vocabulary(X)
    IN  {[none |-> FALSE, fitted |-> TRUE, classes_ |-> classes,
          class_count_ |-> counts, vocabulary_ |-> vocabulary, weights |-> weights] :
            weights \in FittedWeights(counts, vocabulary)}

prepare_model ==
    /\ pc = "prepare_model"
    /\ IF diseases_df.none
       THEN /\ pc' = "ready"
            /\ UNCHANGED <<model, X_train, y_train>>
       ELSE LET X == TrainingDocs(diseases_df)
                y == TrainingLabels(diseases_df)
            IN  /\ X_train' = X
                /\ y_train' = y
                /\ IF X = <<>>
                   THEN \* the pipeline is created and never fitted
                        /\ model' = UnfittedPipeline
                        /\ pc' = "ready"
                   ELSE IF Vocabulary(X) = {}
                   THEN \* TfidfVectorizer.fit raises ValueError: empty vocabulary
                        /\ model' = UnfittedPipeline
                        /\ pc' = "crashed"
                   ELSE /\ pc' = "ready"
                        /\ \E fitted \in Fit(X, y) : model' = fitted
    /\ UNCHANGED <<files, argsort_ties, diseases_df, precautions_df,
                   symptoms_list, diseases_list, ret>>
    /\ UNCHANGED location_vars
    /\ UNCHANGED process_vars
    /\ UNCHANGED first_answer

----------------------------------------------------------------------------
(* predict_disease.                                                        *)

TopK == 5
ThresholdDen == 100
Percent == 100

\* self.model.predict_proba([symptoms_text])[0]; NotFittedError when the
\* pipeline was never fitted
PredictProba(m, text) ==
    [raised |-> ~m.fitted, w |-> IF m.fitted THEN m.weights[text] ELSE <<>>]

\* np.argsort(probabilities): the indices in ascending order of probability;
\* equal probabilities in the order this build's sort leaves them
ArgSort(w, ties) ==
    LET Before(i, j) ==
            \/ w[i] < w[j]
            \/ w[i] = w[j] /\ (IF ties = "index_asc" THEN i < j ELSE i > j)
        rank == Strict([i \in 1..Len(w) |->
                           1 + Cardinality({j \in 1..Len(w) : Before(j, i)})])
    IN  Strict([p \in 1..Len(w) |-> CHOOSE i \in 1..Len(w) : rank[i] = p])

\* slips of the slice: six kept, the reversal forgotten, the lowest kept
TopIndicesOneMore(w, ties) == Reverse(LastK(ArgSort(w, ties), TopK + 1))
TopIndicesAscending(w, ties) == LastK(ArgSort(w, ties), TopK)
TopIndicesLowest(w, ties) ==
    Reverse(SubSeq(ArgSort(w, ties), 1, IF Len(w) < TopK THEN Len(w) ELSE TopK))

\* np.argsort(probabilities)[-5:][::-1]
TopIndices(w, ties) == Reverse(LastK(ArgSort(w, ties), TopK))

\* slip of the comparison: >= 0.01
AtOrAboveThreshold(w, idx) == ThresholdDen * w[idx] >= Sum(w)

\* probabilities[idx] > 0.01
AboveThreshold(w, idx) == ThresholdDen * w[idx] > Sum(w)

\* probabilities[idx] * 100
Confidence(w, idx) == [num |-> Percent * w[idx], den |-> Sum(w)]

RECURSIVE KeptIndices(_, _)
KeptIndices(w, top_indices) ==
    IF top_indices = <<>> THEN <<>>
    ELSE (IF AboveThreshold(w, top_indices[1]) THEN <<top_indices[1]>> ELSE <<>>)
         \o KeptIndices(w, Tail(top_indices))

\* the body of the try block
Ranking(m, text, ties) ==
    LET proba == PredictProba(m, text)
        kept  == KeptIndices(proba.w, TopIndices(proba.w, ties))
    IN  [raised |-> proba.raised,
         predictions |-> IF proba.raised THEN <<>>
                         ELSE [i \in 1..Len(kept) |-> m.classes_[kept[i]]],
         confidences |-> IF proba.raised THEN <<>>
                         ELSE [i \in 1..Len(kept) |-> Confidence(proba.w, kept[i])]]

\* predict_disease without its except clause
PredictDiseaseNoExcept(m, text, ties) ==
    IF m.none
    THEN [NoCall EXCEPT !.op = "predict_disease", !.arg = text]
    ELSE LET r == Ranking(m, text, ties)
         IN  [NoCall EXCEPT !.op = "predict_disease", !.arg = text,
                            !.raised = r.raised,
                            !.predictions = r.predictions,
                            !.confidences = r.confidences]

\* a ranking that remembers the previous query: after a lookup of precautions
\* the predictions come out in the opposite order
PredictDiseaseDrifting(m, text, ties) ==
    IF m.none
    THEN [NoCall EXCEPT !.op = "predict_disease", !.arg = text]
    ELSE LET r == Ranking(m, text, ties)
         IN  IF r.raised
             THEN [NoCall EXCEPT !.op = "predict_disease", !.arg = text, !.caught = TRUE]
             ELSE IF ret.op = "get_precautions"
             THEN [NoCall EXCEPT !.op = "predict_disease", !.arg = text,
                                 !.predictions = Reverse(r.predictions),
                                 !.confidences = Reverse(r.confidences)]
             ELSE [NoCall EXCEPT !.op = "predict_disease", !.arg = text,
                                 !.predictions = r.predictions,
                                 !.confidences = r.confidences]

\* predict_disease(symptoms_text): what it returns and whether it raised
PredictDisease(m, text, ties) ==
    IF m.none
    THEN [NoCall EXCEPT !.op = "predict_disease", !.arg = text]
    ELSE LET r == Ranking(m, text, ties)
         IN  IF r.raised
             THEN \* except Exception: return [], []
                  [NoCall EXCEPT !.op = "predict_disease", !.arg = text, !.caught = TRUE]
             ELSE [NoCall EXCEPT !.op = "predict_disease", !.arg = text,
                                 !.predictions = r.predictions,
                                 !.confidences = r.confidences]

\* one call of predict_disease on the assistant
PredictDiseaseCall ==
    /\ pc = "ready"
    /\ \E text \in QueryTexts : ret' = PredictDisease(model, text, argsort_ties)
    /\ UNCHANGED <<files, argsort_ties, pc, diseases_df, precautions_df, model,
                   symptoms_list, diseases_list, X_train, y_train>>
    /\ UNCHANGED location_vars
    /\ UNCHANGED process_vars

predict_disease ==
    /\ PredictDiseaseCall
    /\ UNCHANGED first_answer

\* the same call, observed: the first call of a run is kept in first_answer
predict_disease_observed ==
    /\ PredictDiseaseCall
    /\ first_answer' = IF first_answer.op = "none" THEN ret' ELSE first_answer

----------------------------------------------------------------------------
(* get_precautions.                                                        *)

\* the generic advice of lines 157-162 and 165-170:
\*   "Consult with a healthcare professional for proper diagnosis",
\*   "Rest and stay hydrated", "Monitor your symptoms closely",
\*   "Seek immediate medical attention if symptoms worsen"
GenericPrecautions ==
    << <<67, 111, 110, 115, 117, 108, 116, 32, 119, 105, 116, 104, 32, 97, 32,
         104, 101, 97, 108, 116, 104, 99, 97, 114, 101, 32, 112, 114, 111,
         102, 101, 115, 115, 105, 111, 110, 97, 108, 32, 102, 111, 114, 32,
         112, 114, 111, 112, 101, 114, 32, 100, 105, 97, 103, 110, 111, 115,
         105, 115>>,
       <<82, 101, 115, 116, 32, 97, 110, 100, 32, 115, 116, 97, 121, 32, 104,
         121, 100, 114, 97, 116, 101, 100>>,
       <<77, 111, 110, 105, 116, 111, 114, 32, 121, 111, 117, 114, 32, 115,
         121, 109, 112, 116, 111, 109, 115, 32, 99, 108, 111, 115, 101, 108,
         121>>,
       <<83, 101, 101, 107, 32, 105, 109, 109, 101, 100, 105, 97, 116, 101,
         32, 109, 101, 100, 105, 99, 97, 108, 32, 97, 116, 116, 101, 110, 116,
         105, 111, 110, 32, 105, 102, 32, 115, 121, 109, 112, 116, 111, 109,
         115, 32, 119, 111, 114, 115, 101, 110>> >>

\* re.search(pat, s) for a pattern of ordinary characters and ".": "." matches
\* any character but a newline (Series.str.contains has regex=True by default)
RegexSearch(pat, s) ==
    \E i \in 0..(Len(s) - Len(pat)) :
        \A j \in 1..Len(pat) :
            IF pat[j] = 46 THEN s[i + j] # 10 ELSE s[i + j] = pat[j]

\* the Disease column is float64 (every cell blank): Series.str raises
FloatDiseaseColumn(df) ==
    /\ Len(df.rows) > 0
    /\ \A r \in 1..Len(df.rows) : df.rows[r].Disease.na

\* df[df['Disease'].str.lower() == disease.lower()], as row numbers
ExactRows(df, disease) ==
    {r \in 1..Len(df.rows) :
        ~df.rows[r].Disease.na /\ Lower(df.rows[r].Disease.s) = Lower(disease)}

\* df[df['Disease'].str.lower().str.contains(disease.lower().split()[0], na=False)]
PartialRows(df, disease) ==
    {r \in 1..Len(df.rows) :
        /\ ~df.rows[r].Disease.na
        /\ RegexSearch(Split(Lower(disease))[1], Lower(df.rows[r].Disease.s))}

\* the loop over Precaution_1 .. Precaution_4 of one row
RECURSIVE PrecautionListFrom(_, _)
PrecautionListFrom(cells, c) ==
    IF c > Len(cells) THEN <<>>
    ELSE (IF ~cells[c].na /\ Strip(cells[c].s) # <<>>
          THEN <<Strip(cells[c].s)>> ELSE <<>>)
         \o PrecautionListFrom(cells, c + 1)

\* the loop as it would be if it appended the cells as they are
PrecautionListUntrimmed(row) ==
    LET kept == {c \in 1..Len(row.Precautions) : ~row.Precautions[c].na}
    IN  [i \in 1..Cardinality(kept) |-> row.Precautions[Ascending(kept)[i]].s]

PrecautionList(row) == PrecautionListFrom(row.Precautions, 1)

\* the body of the try block: the branch taken and the list returned
Lookup(df, disease) ==
    IF FloatDiseaseColumn(df)
    THEN [branch |-> "error", list |-> <<>>]            \* AttributeError
    ELSE IF ExactRows(df, disease) # {}
    THEN [branch |-> "exact",
          list |-> PrecautionList(df.rows[SetMin(ExactRows(df, disease))])]
    ELSE IF Split(Lower(disease)) = <<>>
    THEN [branch |-> "error", list |-> <<>>]            \* IndexError
    ELSE IF PartialRows(df, disease) # {}
    THEN [branch |-> "partial",
          list |-> PrecautionList(df.rows[SetMin(PartialRows(df, disease))])]
    ELSE [branch |-> "generic", list |-> GenericPrecautions]

\* get_precautions as it would be without the try/except of lines 138-164
GetPrecautionsNoExcept(df, disease) ==
    IF df.none
    THEN [NoCall EXCEPT !.op = "get_precautions", !.arg = disease,
                        !.branch = "no_table", !.precautions = GenericPrecautions]
    ELSE LET r == Lookup(df, disease)
         IN  IF r.branch = "error"
             THEN [NoCall EXCEPT !.op = "get_precautions", !.arg = disease,
                                 !.branch = "error", !.raised = TRUE]
             ELSE [NoCall EXCEPT !.op = "get_precautions", !.arg = disease,
                                 !.branch = r.branch, !.precautions = r.list]

\* get_precautions(disease): what it returns and whether it raised
GetPrecautions(df, disease) ==
    IF df.none
    THEN [NoCall EXCEPT !.op = "get_precautions", !.arg = disease,
                        !.branch = "no_table", !.precautions = GenericPrecautions]
    ELSE LET r == Lookup(df, disease)
         IN  IF r.branch = "error"
             THEN \* except Exception: falls through to the final return
                  [NoCall EXCEPT !.op = "get_precautions", !.arg = disease,
                                 !.branch = "error", !.caught = TRUE,
                                 !.precautions = GenericPrecautions]
             ELSE [NoCall EXCEPT !.op = "get_precautions", !.arg = disease,
                                 !.branch = r.branch, !.precautions = r.list]

\* get_precautions as it would be if it kept the filtered frame in
\* self.precautions_df
get_precautions_filtering ==
    /\ pc = "ready"
    /\ \E disease \in DiseaseQueries :
          /\ ret' = GetPrecautions(precautions_df, disease)
          /\ precautions_df' =
                IF precautions_df.none THEN precautions_df
                ELSE [precautions_df EXCEPT
                        !.rows = SelectSeq(precautions_df.rows,
                                     LAMBDA row : ~row.Disease.na
                                         /\ Lower(row.Disease.s) = Lower(disease))]
    /\ UNCHANGED <<files, argsort_ties, pc, diseases_df, model,
                   symptoms_list, diseases_list, X_train, y_train>>
    /\ UNCHANGED location_vars
    /\ UNCHANGED process_vars
    /\ UNCHANGED first_answer

get_precautions ==
    /\ pc = "ready"
    /\ \E disease \in DiseaseQueries : ret' = GetPrecautions(precautions_df, disease)
    /\ UNCHANGED <<files, argsort_ties, pc, diseases_df, precautions_df, model,
                   symptoms_list, diseases_list, X_train, y_train>>
    /\ UNCHANGED location_vars
    /\ UNCHANGED process_vars
    /\ UNCHANGED first_answer

----------------------------------------------------------------------------
(* LocationService (src/location_service.py).                              *)
(*                                                                         *)
(* A latitude or longitude is an integer number of hundredths of a degree. *)
(* A location is a record [num, lat, lon]; num = FALSE stands for a        *)
(* latitude and longitude that are not numbers (text or null in a JSON     *)
(* payload).  A distance is an integer number of tenths of a kilometre.    *)
(* The radius of a search only enters the request that is sent; what the   *)
(* provider answers is an input of the lookup.                             *)

Loc(lat, lon) == [num |-> TRUE, lat |-> lat, lon |-> lon]

TextLoc == [num |-> FALSE, lat |-> 0, lon |-> 0]

\* 40.00 N 74.00 W and 40.10 N 74.00 W
Home == Loc(4000, -7400)
Uptown == Loc(4010, -7400)

Origins == {Home, Uptown}

Abs(x) == IF x < 0 THEN -x ELSE x

\* c = 2 * asin(sqrt(a)) of lines 252-261 in units of 10^-7 radian, as the
\* code computes it on the coordinates of the model: first latitude 40.00
\* or 40.10, difference of longitudes 0.00, 0.01 or 0.10 degrees (either
\* sign), second latitude 39.99, 40.00, ... 40.20.
CentralAngles ==
    [lat1 \in {4000, 4010} |->
        IF lat1 = 4000
        THEN [dlon \in {0, 1, 10} |->
                IF dlon = 0
                THEN <<1745, 0, 1745, 3491, 5236, 6981, 8727, 10472, 12217,
                       13963, 15708, 17453, 19199, 20944, 22689, 24435, 26180,
                       27925, 29671, 31416, 33161, 34907>>
                ELSE IF dlon = 1
                THEN <<2199, 1337, 2199, 3738, 5404, 7108, 8828, 10557, 12290,
                       14026, 15765, 17504, 19245, 20987, 22729, 24471, 26214,
                       27957, 29701, 31444, 33188, 34932>>
                ELSE <<13484, 13370, 13482, 13816, 14356, 15079, 15962, 16978,
                       18106, 19326, 20622, 21980, 23389, 24841, 26329, 27847,
                       29390, 30954, 32537, 34136, 35748, 37372>>]
        ELSE [dlon \in {0, 1, 10} |->
                IF dlon = 0
                THEN <<19199, 17453, 15708, 13963, 12217, 10472, 8727, 6981,
                       5236, 3491, 1745, 0, 1745, 3491, 5236, 6981, 8727,
                       10472, 12217, 13963, 15708, 17453>>
                ELSE IF dlon = 1
                THEN <<19245, 17504, 15765, 14026, 12290, 10557, 8828, 7108,
                       5404, 3737, 2197, 1335, 2197, 3737, 5403, 7108, 8828,
                       10557, 12290, 14026, 15765, 17504>>
                ELSE <<23390, 21980, 20621, 19324, 18102, 16972, 15954, 15069,
                       14343, 13801, 13465, 13350, 13463, 13797, 14338, 15062,
                       15945, 16963, 18092, 19313, 20609, 21968>>]]

CentralAngle(lat1, lon1, lat2, lon2) ==
    CentralAngles[lat1][Abs(lon2 - lon1)][lat2 - 3998]

\* Earth's radius in kilometres
R == 6371

\* _calculate_distance, in units of 10^-7 km
CalculateDistance(lat1, lon1, lat2, lon2) == R * CentralAngle(lat1, lon1, lat2, lon2)

\* round(distance, 1), in tenths of a kilometre (no distance of the model
\* lies halfway between two tenths)
Round1(distance) == (distance + 500000) \div 1000000

\* how a request ended, from the kind of its answer: "ok", "raise" (timeout,
\* connection, exception of the client) or "unusable" (status other than 200,
\* payload without what is read from it)
Outcome(kind) == IF kind \in {"ok", "raise"} THEN kind ELSE "unusable"

\* one external request of a lookup and how it ended
Call(provider, request, outcome) ==
    [provider |-> provider, request |-> request, outcome |-> outcome,
     ok |-> outcome = "ok"]

\* what a lookup returns when it returns no location
NoLocation == [located |-> FALSE, coords |-> Loc(0, 0)]

\* answers of ipinfo.io/json: the request raises (timeout, connection), the
\* status is not 200, the payload has no 'loc', 'loc' is not two numbers, or
\* 'loc' is a pair of numbers
IpinfoResponses ==
    {[kind |-> k, loc |-> Home] : k \in {"raise", "non200", "no_loc", "bad_loc"}}
    \cup {[kind |-> "ok", loc |-> o] : o \in Origins}

\* answers of api.ipify.org: raises, status not 200, no 'ip' key, or an ip
IpifyResponses == {"raise", "non200", "no_ip", "ok"}

\* answers of ip-api.com/json/<ip>: raises, status not 200, 'status' is not
\* 'success', a key of the dict is missing, or a payload with every key,
\* of which 'lat' and 'lon' are passed on as they are
IpapiResponses ==
    {[kind |-> k, loc |-> Home] : k \in {"raise", "non200", "fail", "no_key"}}
    \cup {[kind |-> "ok", loc |-> l] : l \in {Home, TextLoc}}

\* get_user_location_by_ip as it would be if it asked ipinfo.io a second
\* time after a failure
GetUserLocationByIpRetry(ipinfo, ipify, ipapi) ==
    IF ipinfo.kind = "ok"
    THEN [located |-> TRUE, coords |-> ipinfo.loc,
          calls |-> <<Call("ipinfo", "json", "ok")>>]
    ELSE NoLocation @@ [calls |-> <<Call("ipinfo", "json", Outcome(ipinfo.kind)),
                                    Call("ipinfo", "json", Outcome(ipinfo.kind))>>]

\* get_user_location_by_ip(): the dict returned (or None) and the requests made
GetUserLocationByIp(ipinfo, ipify, ipapi) ==
    LET first == <<Call("ipinfo", "json", Outcome(ipinfo.kind))>>
    IN  IF ipinfo.kind = "ok"
        THEN [located |-> TRUE, coords |-> ipinfo.loc, calls |-> first]
        ELSE IF ipify # "ok"
        THEN NoLocation @@ [calls |-> first \o <<Call("ipify", "ip", Outcome(ipify))>>]
        ELSE LET all == first \o <<Call("ipify", "ip", "ok"),
                                   Call("ip-api", "json", Outcome(ipapi.kind))>>
             IN  IF ipapi.kind = "ok"
                 THEN [located |-> TRUE, coords |-> ipapi.loc, calls |-> all]
                 ELSE NoLocation @@ [calls |-> all]

\* answers of Nominatim's geocode: raises, None, or a location
NominatimResponses ==
    {[kind |-> k, loc |-> Home] : k \in {"raise", "none"}}
    \cup {[kind |-> "ok", loc |-> o] : o \in Origins}

\* geocode_address(address): the pair returned (or None) and the request made
GeocodeAddress(nominatim) ==
    IF nominatim.kind = "ok"
    THEN [located |-> TRUE, coords |-> nominatim.loc,
          calls |-> <<Call("nominatim", "geocode", "ok")>>]
    ELSE NoLocation @@ [calls |-> <<Call("nominatim", "geocode", Outcome(nominatim.kind))>>]

\* results kept by find_nearby_hospitals_real and _search_osm_hospitals
MaxResults == 15

\* a facility record as the lookups return it
Facility(name, type, distance, lat, lon) ==
    [name |-> name, type |-> type, distance |-> distance, lat |-> lat, lon |-> lon]

\* _get_fallback_hospitals as it would be if it returned no facility
GetFallbackHospitalsEmpty(user) == [raised |-> ~user.num, hospitals |-> <<>>]

\* _get_fallback_hospitals(lat, lon, radius_km); lat + 0.01 raises TypeError
\* when lat is not a number
GetFallbackHospitals(user) ==
    IF user.num
    THEN [raised |-> FALSE,
          hospitals |-> <<Facility(1001, "Hospital", 25, user.lat + 1, user.lon + 1),
                          Facility(1002, "Clinic", 18, user.lat - 1, user.lon - 1)>>]
    ELSE [raised |-> TRUE, hospitals |-> <<>>]

\* what a facility search returns when it returns the static list
Fallback(user, calls, offered) ==
    GetFallbackHospitals(user)
        @@ [path |-> "fallback", calls |-> calls, offered |-> offered]

RECURSIVE Flatten(_)
Flatten(seqs) == IF seqs = <<>> THEN <<>> ELSE Head(seqs) \o Flatten(Tail(seqs))

\* hospitals.sort(key=lambda x: x['distance']): list.sort is stable
SortByDistance(hospitals) ==
    LET n == Len(hospitals)
        rank(i) == 1 + Cardinality({j \in 1..n :
                        \/ hospitals[j].distance < hospitals[i].distance
                        \/ hospitals[j].distance = hospitals[i].distance /\ j < i})
    IN  Strict([k \in 1..n |-> hospitals[CHOOSE i \in 1..n : rank(i) = k]])

\* hospitals[:n]
First(hospitals, n) ==
    SubSeq(hospitals, 1, IF Len(hospitals) < n THEN Len(hospitals) ELSE n)

\* a result of places_nearby: geometry = FALSE stands for a record without
\* ['geometry']['location']; details tells how the place() request for it ends
Place(name, geometry, lat, lon, details) ==
    [name |-> name, geometry |-> geometry, lat |-> lat, lon |-> lon,
     details |-> details]

\* _extract_place_info(place, user_lat, user_lon, facility_type): None when
\* line 129 raises KeyError or _calculate_distance raises TypeError, both
\* before the place() request of line 140; a failed place() request is ignored
ExtractPlaceInfo(place, user, facility_type) ==
    IF ~place.geometry \/ ~user.num
    THEN [ok |-> FALSE, info |-> Facility(place.name, facility_type, 0, 0, 0),
          calls |-> <<>>]
    ELSE [ok |-> TRUE,
          info |-> Facility(place.name, facility_type,
                            Round1(CalculateDistance(user.lat, user.lon,
                                                     place.lat, place.lon)),
                            place.lat, place.lon),
          calls |-> <<Call("google", "place", place.details)>>]

\* the loops of lines 97-100 and 109-112: the records appended and the
\* requests made
ExtractAll(places, user, facility_type) ==
    LET each == [i \in 1..Len(places) |->
                    ExtractPlaceInfo(places[i], user, facility_type)]
        kept == Ascending({i \in 1..Len(places) : each[i].ok})
    IN  [hospitals |-> Strict([k \in 1..Len(kept) |-> each[kept[k]].info]),
         calls |-> Flatten([i \in 1..Len(places) |-> each[i].calls])]

\* a Google branch that keeps the hospitals gathered before the second
\* search raised and puts the static list after them
SearchGoogleKeepGathered(user, hospital_search, doctor_search) ==
    IF hospital_search.kind = "raise"
    THEN Fallback(user, <<Call("google", "places_nearby", "raise")>>, <<>>)
    ELSE LET h == ExtractAll(hospital_search.results, user, "Hospital")
             first == <<Call("google", "places_nearby", "ok")>> \o h.calls
         IN  IF doctor_search.kind = "raise"
             THEN LET f == Fallback(user,
                                    first \o <<Call("google", "places_nearby", "raise")>>,
                                    hospital_search.results)
                  IN  [f EXCEPT !.hospitals = h.hospitals \o @]
             ELSE LET c == ExtractAll(doctor_search.results, user, "Clinic")
                  IN  [raised |-> FALSE,
                       hospitals |-> First(SortByDistance(h.hospitals \o c.hospitals),
                                           MaxResults),
                       path |-> "google",
                       calls |-> first \o <<Call("google", "places_nearby", "ok")>>
                                       \o c.calls,
                       offered |-> hospital_search.results \o doctor_search.results]

\* the branch of find_nearby_hospitals_real that uses Google Places
SearchGoogle(user, hospital_search, doctor_search) ==
    IF hospital_search.kind = "raise"
    THEN Fallback(user, <<Call("google", "places_nearby", "raise")>>, <<>>)
    ELSE LET h == ExtractAll(hospital_search.results, user, "Hospital")
             first == <<Call("google", "places_nearby", "ok")>> \o h.calls
         IN  IF doctor_search.kind = "raise"
             THEN Fallback(user, first \o <<Call("google", "places_nearby", "raise")>>,
                           hospital_search.results)
             ELSE LET c == ExtractAll(doctor_search.results, user, "Clinic")
                  IN  [raised |-> FALSE,
                       hospitals |-> First(SortByDistance(h.hospitals \o c.hospitals),
                                           MaxResults),
                       path |-> "google",
                       calls |-> first \o <<Call("google", "places_nearby", "ok")>>
                                       \o c.calls,
                       offered |-> hospital_search.results \o doctor_search.results]

\* an element of the Overpass answer: tags = FALSE stands for an element
\* without 'tags', coords = FALSE for a node without 'lat'/'lon' or a way
\* without 'center'
Element(name, type, amenity, tags, coords, lat, lon) ==
    [name |-> name, type |-> type, amenity |-> amenity, tags |-> tags,
     coords |-> coords, lat |-> lat, lon |-> lon]

\* the element makes the body of the loop raise: KeyError at line 206 for a
\* node without 'lat', TypeError in _calculate_distance for an origin that
\* is not a number
ElementRaises(element, user) ==
    /\ element.tags
    /\ \/ element.type = "node" /\ ~element.coords
       \/ element.coords /\ ~user.num

\* the element is appended
ElementKept(element) == element.tags /\ element.coords

\* _search_osm_hospitals(lat, lon, radius_km)
SearchOsmHospitals(user, overpass) ==
    IF overpass.kind = "raise"
    THEN Fallback(user, <<Call("overpass", "interpreter", "raise")>>, <<>>)
    ELSE IF overpass.kind = "non200"
    THEN [raised |-> FALSE, hospitals |-> <<>>, path |-> "osm",
          calls |-> <<Call("overpass", "interpreter", "unusable")>>, offered |-> <<>>]
    ELSE LET elements == overpass.results
             kept == Ascending({i \in 1..Len(elements) : ElementKept(elements[i])})
             info(e) == Facility(e.name,
                                 IF e.amenity = "hospital" THEN "Hospital" ELSE "Clinic",
                                 Round1(CalculateDistance(user.lat, user.lon,
                                                          e.lat, e.lon)),
                                 e.lat, e.lon)
         IN  IF \E i \in 1..Len(elements) : ElementRaises(elements[i], user)
             THEN Fallback(user, <<Call("overpass", "interpreter", "ok")>>, elements)
             ELSE [raised |-> FALSE,
                   hospitals |->
                       First(SortByDistance(
                                 Strict([k \in 1..Len(kept) |-> info(elements[kept[k]])])),
                             MaxResults),
                   path |-> "osm",
                   calls |-> <<Call("overpass", "interpreter", "ok")>>,
                   offered |-> elements]

\* find_nearby_hospitals_real(lat, lon, radius_km)
FindNearbyHospitalsReal(client, user, hospital_search, doctor_search, overpass) ==
    IF client
    THEN SearchGoogle(user, hospital_search, doctor_search)
    ELSE SearchOsmHospitals(user, overpass)

\* places of a generated places_nearby answer
MaxPlaces == 2

\* places of an answer that is longer than the 15 results kept
ManyPlaces == 16

\* a place 1.4 km from Home, one whose place() request fails, one without
\* coordinates, and one at Uptown
Places ==
    {Place(1, TRUE, 4001, -7401, "ok"), Place(2, TRUE, 4005, -7400, "raise"),
     Place(3, FALSE, 0, 0, "ok"), Place(4, TRUE, 4010, -7400, "ok")}

\* ManyPlaces places north of Home, the farthest first
ManyPlacesList ==
    [k \in 1..ManyPlaces |->
        Place(100 + k, TRUE, 4000 + (ManyPlaces + 1 - k), -7400, "ok")]

RaisedSearch == [kind |-> "raise", results |-> <<>>]

\* outcomes of places_nearby(type='hospital')
HospitalSearches ==
    {RaisedSearch}
    \cup {[kind |-> "ok", results |-> s] :
            s \in SeqsUpTo(Places, MaxPlaces) \cup {ManyPlacesList}}

\* outcomes of places_nearby(type='doctor')
DoctorSearches ==
    {RaisedSearch} \cup {[kind |-> "ok", results |-> s] : s \in SeqsUpTo(Places, 1)}

\* a hospital node, a node without 'lat', a clinic way with a center, a way
\* without center, and an element without tags
Elements ==
    {Element(11, "node", "hospital", TRUE, TRUE, 4001, -7401),
     Element(12, "node", "hospital", TRUE, FALSE, 0, 0),
     Element(13, "way", "clinic", TRUE, TRUE, 4005, -7400),
     Element(14, "way", "clinic", TRUE, FALSE, 0, 0),
     Element(15, "node", "hospital", FALSE, TRUE, 4010, -7400)}

ManyElementsList ==
    [k \in 1..ManyPlaces |->
        Element(200 + k, "node", "hospital", TRUE, TRUE,
                4000 + (ManyPlaces + 1 - k), -7400)]

\* outcomes of the Overpass request: it raises (timeout, connection, a body
\* that is not JSON), its status is not 200, or it gives a list of elements
OverpassResponses ==
    {RaisedSearch, [kind |-> "non200", results |-> <<>>]}
    \cup {[kind |-> "ok", results |-> s] :
            s \in SeqsUpTo(Elements, MaxPlaces) \cup {ManyElementsList}}

\* what the providers of a facility search answer; only the providers that
\* the search can reach vary
FacilityWorlds(client) ==
    IF client
    THEN {[hospital_search |-> h, doctor_search |-> d, overpass |-> RaisedSearch] :
            h \in HospitalSearches, d \in DoctorSearches}
    ELSE {[hospital_search |-> RaisedSearch, doctor_search |-> RaisedSearch,
           overpass |-> o] : o \in OverpassResponses}

\* what the IP geolocation services answer
IpWorlds ==
    {[ipinfo |-> a, ipify |-> b, ipapi |-> c] :
        a \in IpinfoResponses, b \in IpifyResponses, c \in IpapiResponses}

\* a lookup keeps no state in the LocationService: the model follows one
\* lookup, from the state in which none was made
Idle == lookup.op = "none"

get_user_location_by_ip ==
    /\ Idle
    /\ \E w \in IpWorlds :
          LET r == GetUserLocationByIp(w.ipinfo, w.ipify, w.ipapi)
          IN  lookup' = [NoLookup EXCEPT !.op = "get_user_location_by_ip",
                                         !.located = r.located,
                                         !.coords = r.coords,
                                         !.calls = r.calls]
    /\ UNCHANGED <<files, argsort_ties, pc, diseases_df, precautions_df, model,
                   symptoms_list, diseases_list, X_train, y_train, ret,
                   gmaps_client>>
    /\ UNCHANGED process_vars
    /\ UNCHANGED first_answer

geocode_address ==
    /\ Idle
    /\ \E nominatim \in NominatimResponses :
          LET r == GeocodeAddress(nominatim)
          IN  lookup' = [NoLookup EXCEPT !.op = "geocode_address",
                                         !.located = r.located,
                                         !.coords = r.coords,
                                         !.calls = r.calls]
    /\ UNCHANGED <<files, argsort_ties, pc, diseases_df, precautions_df, model,
                   symptoms_list, diseases_list, X_train, y_train, ret,
                   gmaps_client>>
    /\ UNCHANGED process_vars
    /\ UNCHANGED first_answer

find_nearby_hospitals_real ==
    /\ Idle
    /\ \E user \in Origins \cup {TextLoc}, w \in FacilityWorlds(gmaps_client) :
          LET r == FindNearbyHospitalsReal(gmaps_client, user, w.hospital_search,
                                           w.doctor_search, w.overpass)
          IN  lookup' = [NoLookup EXCEPT !.op = "find_nearby_hospitals_real",
                                         !.searched = TRUE,
                                         !.origin = user,
                                         !.hospitals = r.hospitals,
                                         !.raised = r.raised,
                                         !.path = r.path,
                                         !.calls = r.calls,
                                         !.offered = r.offered]
    /\ UNCHANGED <<files, argsort_ties, pc, diseases_df, precautions_df, model,
                   symptoms_list, diseases_list, X_train, y_train, ret,
                   gmaps_client>>
    /\ UNCHANGED process_vars
    /\ UNCHANGED first_answer

\* find_nearby_doctors without the try/except of lines 174-216
FindNearbyDoctorsNoExcept(client, mode, ip, nominatim, w) ==
    LET nothing == NoLocation @@ [calls |-> <<>>]
        where == IF mode = "current"
                 THEN GetUserLocationByIp(ip.ipinfo, ip.ipify, ip.ipapi)
                 ELSE IF mode = "address" THEN GeocodeAddress(nominatim)
                 ELSE nothing
        base == [NoLookup EXCEPT !.op = "find_nearby_doctors", !.mode = mode,
                                 !.calls = where.calls]
    IN  IF ~where.located
        THEN base
        ELSE LET r == FindNearbyHospitalsReal(client, where.coords, w.hospital_search,
                                              w.doctor_search, w.overpass)
             IN  [base EXCEPT !.searched = TRUE,
                              !.origin = where.coords,
                              !.located = ~r.raised,
                              !.coords = IF r.raised THEN NoLocation.coords
                                         ELSE where.coords,
                              !.hospitals = r.hospitals,
                              !.raised = r.raised,
                              !.path = r.path,
                              !.calls = where.calls \o r.calls,
                              !.offered = r.offered]

\* find_nearby_doctors that turns to the entered address when the location
\* by IP failed
FindNearbyDoctorsGeocoding(client, mode, ip, nominatim, w) ==
    LET r == FindNearbyDoctorsNoExcept(client, mode, ip, nominatim, w)
        g == GeocodeAddress(nominatim)
    IN  IF mode = "current" /\ ~r.searched
        THEN [r EXCEPT !.calls = @ \o g.calls]
        ELSE IF r.raised THEN [r EXCEPT !.raised = FALSE, !.caught = TRUE] ELSE r

\* find_nearby_doctors(location, radius, use_current_location): mode is
\* "current" with use_current_location, "address" with a non-empty location,
\* "nothing" otherwise; an exception that leaves the facility search is
\* caught at line 214 and [], None returned
FindNearbyDoctors(client, mode, ip, nominatim, w) ==
    LET r == FindNearbyDoctorsNoExcept(client, mode, ip, nominatim, w)
    IN  IF r.raised THEN [r EXCEPT !.raised = FALSE, !.caught = TRUE] ELSE r

find_nearby_doctors ==
    /\ Idle
    /\ pc = "ready"
    /\ \E mode \in {"current", "address", "nothing"} :
       \E ip \in IF mode = "current" THEN IpWorlds
                 ELSE {[ipinfo |-> [kind |-> "raise", loc |-> Home],
                        ipify |-> "raise",
                        ipapi |-> [kind |-> "raise", loc |-> Home]]} :
       \E nominatim \in IF mode = "address" THEN NominatimResponses
                        ELSE {[kind |-> "raise", loc |-> Home]} :
       \E w \in FacilityWorlds(gmaps_client) :
          lookup' = FindNearbyDoctors(gmaps_client, mode, ip, nominatim, w)
    /\ UNCHANGED <<files, argsort_ties, pc, diseases_df, precautions_df, model,
                   symptoms_list, diseases_list, X_train, y_train, ret,
                   gmaps_client>>
    /\ UNCHANGED process_vars
    /\ UNCHANGED first_answer

\* The LocationService with and without a Google Maps client, next to a
\* HealthcareAssistant that reads the basic files.
LocationInit ==
    /\ files = [diseases |-> UniformTable(1), precautions |-> BasicPrecautionFile]
    /\ argsort_ties = "index_asc"
    /\ pc = "load_data"
    /\ diseases_df = NoneDF
    /\ precautions_df = NoneDF
    /\ model = NoneModel
    /\ symptoms_list = <<>>
    /\ diseases_list = <<>>
    /\ X_train = <<>>
    /\ y_train = <<>>
    /\ ret = NoCall
    /\ gmaps_client \in BOOLEAN
    /\ lookup = NoLookup
    /\ NoProcess
    /\ first_answer = NoCall

LocationNext ==
    \/ load_data
    \/ prepare_model
    \/ get_user_location_by_ip
    \/ geocode_address
    \/ find_nearby_hospitals_real
    \/ find_nearby_doctors

LocationSpec == LocationInit /\ [][LocationNext]_vars

----------------------------------------------------------------------------
(* The three queries of the assistant side by side.                        *)

\* An assistant that reads the basic files, or a disease table without rows
\* (which leaves a pipeline that was never fitted), and a LocationService
\* without Google Maps client.
QueryInit ==
    /\ files \in {[diseases |-> d, precautions |-> BasicPrecautionFile] :
                    d \in {UniformTable(1), Table(2, <<>>)}}
    /\ argsort_ties = "index_asc"
    /\ pc = "load_data"
    /\ diseases_df = NoneDF
    /\ precautions_df = NoneDF
    /\ model = NoneModel
    /\ symptoms_list = <<>>
    /\ diseases_list = <<>>
    /\ X_train = <<>>
    /\ y_train = <<>>
    /\ ret = NoCall
    /\ gmaps_client = FALSE
    /\ lookup = NoLookup
    /\ NoProcess
    /\ first_answer = NoCall

QueryNext ==
    \/ load_data
    \/ prepare_model
    \/ predict_disease
    \/ get_precautions
    \/ find_nearby_doctors

QuerySpec == QueryInit /\ [][QueryNext]_vars

----------------------------------------------------------------------------
(* main() of src/app.py under Streamlit.  The script runs from its top on   *)
(* every interaction of a browser session, and st.session_state is a store *)
(* of that session: what one session puts into it no other session sees.  *)

\* HealthcareAssistant() raises on these files: EmptyDataError of read_csv,
\* AttributeError of clean_data, ValueError of fit
ConstructorRaises(f) ==
    /\ f.diseases.kind # "missing"
    /\ \/ f.diseases.kind = "nodata"
       \/ f.precautions.kind = "nodata"
       \/ /\ f.precautions.kind = "table"
          /\ CleanDataRaises(DF(f.diseases))
       \/ /\ TrainingDocs(DF(f.diseases)) # <<>>
          /\ Vocabulary(TrainingDocs(DF(f.diseases))) = {}

\* the assistants constructed so far in the process, each of which read the
\* files and, unless it raised before, trained a model
Constructions == Sum([s \in Sessions |-> script_runs[s].constructed])

\* one run of main() in a session, lines 345-349: the assistant is
\* constructed when the session's store has none; a constructor that raises
\* ends the run before the store is written
main(s) ==
    /\ script_runs[s].runs < MaxReruns
    /\ IF session_state[s] = 0
       THEN /\ script_runs' = [script_runs EXCEPT
                                 ![s] = [runs |-> @.runs + 1,
                                         constructed |-> @.constructed + 1]]
            /\ session_state' =
                  IF ConstructorRaises(files) THEN session_state
                  ELSE [session_state EXCEPT ![s] = Constructions + 1]
       ELSE /\ script_runs' = [script_runs EXCEPT ![s].runs = @ + 1]
            /\ UNCHANGED session_state
    /\ UNCHANGED assistant_vars
    /\ UNCHANGED location_vars
    /\ UNCHANGED <<environment, launcher, first_answer>>

\* A process that finds the basic files, or a disease file without header.
SessionInit ==
    /\ files \in {[diseases |-> d, precautions |-> BasicPrecautionFile] :
                    d \in {UniformTable(1), NoDataFile}}
    /\ argsort_ties = "index_asc"
    /\ pc = "load_data"
    /\ diseases_df = NoneDF
    /\ precautions_df = NoneDF
    /\ model = NoneModel
    /\ symptoms_list = <<>>
    /\ diseases_list = <<>>
    /\ X_train = <<>>
    /\ y_train = <<>>
    /\ ret = NoCall
    /\ gmaps_client = FALSE
    /\ lookup = NoLookup
    /\ NoProcess
    /\ first_answer = NoCall

SessionNext == \E s \in Sessions : main(s)

SessionSpec == SessionInit /\ [][SessionNext]_vars

----------------------------------------------------------------------------
\* The assistant with its first predict_disease call kept for comparison, and
\* precautions looked up between the calls.
RepeatInit ==
    /\ files \in {[diseases |-> d, precautions |-> BasicPrecautionFile] :
                    d \in {WeightedTable(MaxClasses), UniformTable(MaxClasses),
                           UnderscoreTable}}
    /\ argsort_ties \in {"index_asc", "index_desc"}
    /\ pc = "load_data"
    /\ diseases_df = NoneDF
    /\ precautions_df = NoneDF
    /\ model = NoneModel
    /\ symptoms_list = <<>>
    /\ diseases_list = <<>>
    /\ X_train = <<>>
    /\ y_train = <<>>
    /\ ret = NoCall
    /\ gmaps_client = FALSE
    /\ lookup = NoLookup
    /\ NoProcess
    /\ first_answer = NoCall

RepeatNext ==
    \/ load_data
    \/ prepare_model
    \/ predict_disease_observed
    \/ get_precautions

RepeatSpec == RepeatInit /\ [][RepeatNext]_vars

----------------------------------------------------------------------------
(* launcher.py: main() runs the three checks and launches the application. *)

\* what the launcher finds for a required package: it imports, or it is
\* missing and pip installs it, pip exits with an error (CalledProcessError),
\* or pip cannot be run at all (another exception of check_call)
PackageStates == {"installed", "pip_ok", "pip_fails", "pip_raises"}

\* the machines with at most MaxMissing missing packages
Environments ==
    {[python_ok |-> v, packages |-> p] :
        v \in BOOLEAN,
        p \in {q \in [1..Len(RequiredPackages) -> PackageStates] :
                  Cardinality({i \in 1..Len(RequiredPackages) : q[i] # "installed"})
                      <= MaxMissing}}

\* a function called by main() and what it returned
Called(fn, result) == [fn |-> fn, result |-> result]

\* missing_packages, in the order of required_packages
MissingPackages(packages) ==
    Ascending({i \in 1..Len(RequiredPackages) : packages[i] # "installed"})

\* the installation loop of lines 53-59 from the k-th missing package on:
\* the packages afterwards, the packages pip was run for, and how it ended
RECURSIVE InstallFrom(_, _, _)
InstallFrom(packages, missing, k) ==
    IF k > Len(missing)
    THEN [packages |-> packages, pip |-> SubSeq(missing, 1, Len(missing)),
          result |-> "True"]
    ELSE IF packages[missing[k]] = "pip_fails"
    THEN [packages |-> packages, pip |-> SubSeq(missing, 1, k), result |-> "False"]
    ELSE IF packages[missing[k]] = "pip_raises"
    THEN [packages |-> packages, pip |-> SubSeq(missing, 1, k), result |-> "raised"]
    ELSE InstallFrom([packages EXCEPT ![missing[k]] = "installed"], missing, k + 1)

\* main() up to the end of check_python_version
check_python_version ==
    /\ launcher.pc = "not_started"
    /\ launcher' = [pc |-> IF environment.python_ok THEN "check_requirements"
                           ELSE "returned",
                    called |-> <<Called("check_python_version",
                                        IF environment.python_ok THEN "True"
                                        ELSE "False")>>,
                    pip |-> <<>>]
    /\ UNCHANGED <<environment, session_state, script_runs, first_answer>>
    /\ UNCHANGED assistant_vars
    /\ UNCHANGED location_vars

\* a check_data_files that lets main() go on when a file is missing
check_data_files_lenient ==
    /\ launcher.pc = "check_data_files"
    /\ LET found == files.diseases.kind # "missing" /\ files.precautions.kind # "missing"
       IN  launcher' = [launcher EXCEPT
                           !.pc = "launch_app",
                           !.called = Append(@, Called("check_data_files",
                                                       IF found THEN "True" ELSE "False"))]
    /\ UNCHANGED <<environment, session_state, script_runs, first_answer>>
    /\ UNCHANGED assistant_vars
    /\ UNCHANGED location_vars

check_requirements ==
    /\ launcher.pc = "check_requirements"
    /\ LET r == InstallFrom(environment.packages,
                            MissingPackages(environment.packages), 1)
       IN  /\ environment' = [environment EXCEPT !.packages = r.packages]
           /\ launcher' = [pc |-> IF r.result = "True" THEN "check_data_files"
                                  ELSE IF r.result = "False" THEN "returned"
                                  ELSE "crashed",
                           called |-> Append(launcher.called,
                                             Called("check_requirements", r.result)),
                           pip |-> r.pip]
    /\ UNCHANGED <<session_state, script_runs, first_answer>>
    /\ UNCHANGED assistant_vars
    /\ UNCHANGED location_vars

check_data_files ==
    /\ launcher.pc = "check_data_files"
    /\ LET found == files.diseases.kind # "missing" /\ files.precautions.kind # "missing"
       IN  launcher' = [launcher EXCEPT
                           !.pc = IF found THEN "launch_app" ELSE "returned",
                           !.called = Append(@, Called("check_data_files",
                                                       IF found THEN "True" ELSE "False"))]
    /\ UNCHANGED <<environment, session_state, script_runs, first_answer>>
    /\ UNCHANGED assistant_vars
    /\ UNCHANGED location_vars

\* launch_app(): subprocess.run returns, is interrupted (KeyboardInterrupt)
\* or raises; the three ends are handled and main() returns
launch_app ==
    /\ launcher.pc = "launch_app"
    /\ \E end \in {"exited", "interrupted", "error"} :
          launcher' = [launcher EXCEPT
                          !.pc = "returned",
                          !.called = Append(@, Called("launch_app", end))]
    /\ UNCHANGED <<environment, session_state, script_runs, first_answer>>
    /\ UNCHANGED assistant_vars
    /\ UNCHANGED location_vars

\* The launcher on every machine of Environments, with each data file
\* present or absent in the current directory.
LauncherInit ==
    /\ files \in {[diseases |-> d, precautions |-> p] :
                    d \in {MissingFile, NoDataFile, UniformTable(1)},
                    p \in {MissingFile, BasicPrecautionFile}}
    /\ argsort_ties = "index_asc"
    /\ pc = "load_data"
    /\ diseases_df = NoneDF
    /\ precautions_df = NoneDF
    /\ model = NoneModel
    /\ symptoms_list = <<>>
    /\ diseases_list = <<>>
    /\ X_train = <<>>
    /\ y_train = <<>>
    /\ ret = NoCall
    /\ gmaps_client = FALSE
    /\ lookup = NoLookup
    /\ session_state = [s \in Sessions |-> 0]
    /\ script_runs = [s \in Sessions |-> [runs |-> 0, constructed |-> 0]]
    /\ environment \in Environments
    /\ launcher = [pc |-> "not_started", called |-> <<>>, pip |-> <<>>]
    /\ first_answer = NoCall

LauncherNext ==
    \/ check_python_version
    \/ check_requirements
    \/ check_data_files
    \/ launch_app

LauncherSpec == LauncherInit /\ [][LauncherNext]_vars

----------------------------------------------------------------------------
Next ==
    \/ load_data
    \/ prepare_model
    \/ predict_disease
    \/ get_precautions

Spec == Init /\ [][Next]_vars

----------------------------------------------------------------------------
(* Properties of predict_disease.                                          *)

Predicted == ret.op = "predict_disease"

\* a call of predict_disease that ran the ranking to its end
Ranked == Predicted /\ ~model.none /\ model.fitted

\* the probability vector of the last call
LastProba == model.weights[ret.arg]

\* the position of a returned label in classes_
ClassIndex(label) ==
    CHOOSE i \in 1..Len(model.classes_) : model.classes_[i] = label

\* confidence a is at least confidence b
ConfGeq(a, b) == a.num * b.den >= b.num * a.den

\* C1: predict_disease returns at most 5 (disease, confidence) pairs.
C1_AtMostFive ==
    Predicted => Len(ret.predictions) <= 5 /\ Len(ret.confidences) <= 5

\* a model with more than 5 classes above the threshold returned 5 pairs
C1_Witness ==
    /\ Ranked
    /\ Cardinality({i \in 1..Len(LastProba) : AboveThreshold(LastProba, i)}) > 5
    /\ Len(ret.predictions) = 5

\* C2: every returned confidence is strictly greater than 1 and at most 100.
C2_ConfidenceBounds ==
    Predicted =>
        \A i \in 1..Len(ret.confidences) :
            /\ ret.confidences[i].num > ret.confidences[i].den
            /\ ret.confidences[i].num <= 100 * ret.confidences[i].den

\* a class whose probability is exactly 0.01 was among the top indices and was
\* dropped while another class was returned
C2_Witness ==
    /\ Ranked
    /\ Len(ret.confidences) >= 1
    /\ \E k \in 1..Len(TopIndices(LastProba, argsort_ties)) :
          100 * LastProba[TopIndices(LastProba, argsort_ties)[k]] = Sum(LastProba)

\* C3: the returned sequence is ordered by descending confidence.
C3_Descending ==
    Predicted =>
        \A i, j \in 1..Len(ret.confidences) :
            i < j => ConfGeq(ret.confidences[i], ret.confidences[j])

\* three labels of three different confidences were returned
C3_Witness ==
    /\ Ranked
    /\ Len(ret.confidences) >= 3
    /\ ~ConfGeq(ret.confidences[2], ret.confidences[1])
    /\ ~ConfGeq(ret.confidences[3], ret.confidences[2])

\* the row in which a label is first seen in the disease table
FirstSeen(label) ==
    SetMin({r \in 1..Len(diseases_df.rows) : diseases_df.rows[r].Disease = label})

\* both CSV files were found and read
BothFilesRead == ~diseases_df.none /\ ~precautions_df.none

\* C4: labels of equal probability are returned in the order in which they
\* are first seen in the disease table, and of two such labels of which only
\* one is returned, the one first seen earlier is the one returned.  (Stated
\* for a knowledge base whose two files were both read.)
C4_FirstSeenTieBreak ==
    (Ranked /\ BothFilesRead) =>
        /\ \A i, j \in 1..Len(ret.predictions) :
              (i < j /\ ConfGeq(ret.confidences[j], ret.confidences[i]))
                  => FirstSeen(ret.predictions[i]) < FirstSeen(ret.predictions[j])
        /\ \A i \in 1..Len(ret.predictions) :
              \A c \in 1..Len(model.classes_) :
                  ( /\ model.classes_[c] \notin Range(ret.predictions)
                    /\ LastProba[c] = LastProba[ClassIndex(ret.predictions[i])] )
                      => FirstSeen(ret.predictions[i]) < FirstSeen(model.classes_[c])

\* C5: the labels returned are the highest-probability labels among those of
\* probability > 0.01, up to 5: no label of probability <= 0.01 is returned,
\* and a label of probability > 0.01 is left out only if 5 labels of
\* probability at least as high are returned.
C5_TopAboveThreshold ==
    Ranked =>
        /\ \A i \in 1..Len(ret.predictions) :
              100 * LastProba[ClassIndex(ret.predictions[i])] > Sum(LastProba)
        /\ \A c \in 1..Len(model.classes_) :
              ( /\ 100 * LastProba[c] > Sum(LastProba)
                /\ model.classes_[c] \notin Range(ret.predictions) )
                  => /\ Len(ret.predictions) = 5
                     /\ \A i \in 1..5 :
                           LastProba[ClassIndex(ret.predictions[i])] >= LastProba[c]

\* a label of probability > 0.01 was left out behind 5 labels of strictly
\* higher probability
C5_Witness ==
    /\ Ranked
    /\ Len(ret.predictions) = 5
    /\ \E c \in 1..Len(model.classes_) :
          /\ 100 * LastProba[c] > Sum(LastProba)
          /\ model.classes_[c] \notin Range(ret.predictions)
          /\ \A i \in 1..5 : LastProba[ClassIndex(ret.predictions[i])] > LastProba[c]

\* C6: predict_disease never raises; without a model, or when inference
\* raises, it returns an empty prediction list and an empty confidence list.
C6_NeverRaises ==
    Predicted =>
        /\ ~ret.raised
        /\ (model.none \/ PredictProba(model, ret.arg).raised)
              => ret.predictions = <<>> /\ ret.confidences = <<>>

\* inference raised on a pipeline that was never fitted, and the call
\* returned two empty lists
C6_Witness ==
    /\ Predicted
    /\ ~model.none
    /\ PredictProba(model, ret.arg).raised
    /\ ret.caught
    /\ ret.predictions = <<>>

\* the number of training documents of a label
PriorCount(label) == Cardinality({j \in 1..Len(y_train) : y_train[j] = label})

\* a call of predict_disease on a trained model with an all-zero query vector
RankedZeroVector == Ranked /\ ZeroVector(ret.arg, Vocabulary(X_train))

\* C7 as stated: with a trained model, an empty or all-stop-word query never
\* gets an empty result.
C7_NeverEmpty == RankedZeroVector => ret.predictions # <<>>

\* C7 as amended: with a trained model, an empty or all-stop-word query gets
\* the class priors as confidences, and the result is empty exactly when no
\* class prior exceeds 0.01; with fewer than 100 classes it is never empty.
C7_PriorRanking ==
    RankedZeroVector =>
        /\ \A i \in 1..Len(ret.predictions) :
              ret.confidences[i].num * Len(y_train) =
                  100 * PriorCount(ret.predictions[i]) * ret.confidences[i].den
        /\ ret.predictions = <<>>
              <=> \A label \in Range(y_train) : 100 * PriorCount(label) <= Len(y_train)
        /\ Len(model.classes_) < 100 => ret.predictions # <<>>

\* an all-stop-word query returned classes of different priors
C7_Witness ==
    /\ RankedZeroVector
    /\ ret.arg # <<>>
    /\ Len(ret.predictions) >= 2
    /\ ~ConfGeq(ret.confidences[2], ret.confidences[1])

----------------------------------------------------------------------------
(* Properties of initialisation.                                           *)

\* C8: if either data file cannot be found, initialisation fails and no
\* query is served; no table is loaded and no model exists while a file is
\* missing.
C8_NoPartialKnowledgeBase ==
    (files.diseases.kind = "missing" \/ files.precautions.kind = "missing")
        => /\ pc # "ready"
           /\ diseases_df.none /\ precautions_df.none /\ model.none

\* C9: prepare_model leaves a trained model or fails fatally; with zero
\* usable documents it fails, and no model exists that was not trained.
\* (Stated for a knowledge base whose two files were both read.)
C9_AllOrNothing ==
    (pc = "ready" /\ BothFilesRead) =>
        /\ model.none \/ model.fitted
        /\ ~diseases_df.none => UsableRows(diseases_df) # {}

----------------------------------------------------------------------------
(* Properties of get_precautions.                                          *)

LookedUp == ret.op = "get_precautions"

\* sub in s
Contains(s, sub) ==
    \E i \in 0..(Len(s) - Len(sub)) :
        \A j \in 1..Len(sub) : s[i + j] = sub[j]

\* the three stages of C10, the second by substring
StagedPrecautions(df, disease) ==
    LET exact   == {r \in 1..Len(df.rows) :
                       ~df.rows[r].Disease.na
                       /\ Lower(df.rows[r].Disease.s) = Lower(disease)}
        partial == {r \in 1..Len(df.rows) :
                       ~df.rows[r].Disease.na
                       /\ Contains(Lower(df.rows[r].Disease.s), Split(Lower(disease))[1])}
    IN  IF exact # {} THEN PrecautionList(df.rows[SetMin(exact)])
        ELSE IF partial # {} THEN PrecautionList(df.rows[SetMin(partial)])
        ELSE GenericPrecautions

\* C10: get_precautions(d) uses the rows whose Disease equals d ignoring
\* case; if there is none, the rows whose lower-cased Disease contains the
\* lower-cased first token of d; if there is none, the generic 4-entry list.
C10_ThreeStages ==
    (LookedUp /\ ~precautions_df.none /\ ~FloatDiseaseColumn(precautions_df)
              /\ Split(Lower(ret.arg)) # <<>>)
        => ret.precautions = StagedPrecautions(precautions_df, ret.arg)

\* no row of the table carries the disease name: none equals it ignoring
\* case and none contains its lower-cased first token
Absent(df, disease) ==
    \/ df.none
    \/ \A r \in 1..Len(df.rows) :
          \/ df.rows[r].Disease.na
          \/ /\ Lower(df.rows[r].Disease.s) # Lower(disease)
             /\ \/ Split(Lower(disease)) = <<>>
                \/ ~Contains(Lower(df.rows[r].Disease.s), Split(Lower(disease))[1])

\* C11: get_precautions with a disease name that is absent from the
\* precaution table returns exactly the generic 4-entry list, in its order.
C11_AbsentGeneric ==
    (LookedUp /\ Absent(precautions_df, ret.arg))
        => ret.precautions = GenericPrecautions

\* C12: whatever the disease name and the precaution table, get_precautions
\* returns between 1 and 4 strings, the precautions of a row of the table or
\* the generic 4-entry list, and never an empty list.
C12_OneToFour ==
    LookedUp =>
        /\ Len(ret.precautions) \in 1..4
        /\ \/ ret.precautions = GenericPrecautions
           \/ /\ ~precautions_df.none
              /\ \E r \in 1..Len(precautions_df.rows) :
                    ret.precautions = PrecautionList(precautions_df.rows[r])

\* the rows that the call took for matching, of the stage that it used
MatchedRows ==
    IF ret.branch = "exact" THEN ExactRows(precautions_df, ret.arg)
    ELSE IF ret.branch = "partial" THEN PartialRows(precautions_df, ret.arg)
    ELSE {}

\* the columns of a row whose cell is present and not blank
KeptColumns(row) ==
    {c \in 1..4 : ~row.Precautions[c].na /\ Strip(row.Precautions[c].s) # <<>>}

\* C13: when a row matches, get_precautions returns the trimmed values of
\* Precaution_1 .. Precaution_4 of the first matching row that are present
\* and not blank, in column order, and nothing else.
C13_FirstRowTrimmed ==
    (LookedUp /\ MatchedRows # {}) =>
        LET row  == precautions_df.rows[SetMin(MatchedRows)]
            cols == Ascending(KeptColumns(row))
        IN  /\ Len(ret.precautions) = Len(cols)
            /\ \A i \in 1..Len(cols) :
                  ret.precautions[i] = Strip(row.Precautions[cols[i]].s)

\* two rows matched, the first one has a missing cell, a blank cell and a
\* padded cell, and its list differs from the list of the second
C13_Witness ==
    /\ LookedUp
    /\ Cardinality(MatchedRows) = 2
    /\ LET row == precautions_df.rows[SetMin(MatchedRows)]
       IN  /\ \E c \in 1..4 : row.Precautions[c].na
           /\ \E c \in 1..4 :
                 ~row.Precautions[c].na /\ Strip(row.Precautions[c].s) = <<>>
           /\ \E c \in 1..4 :
                 /\ ~row.Precautions[c].na
                 /\ Strip(row.Precautions[c].s) # <<>>
                 /\ Strip(row.Precautions[c].s) # row.Precautions[c].s
           /\ ret.precautions # PrecautionList(precautions_df.rows[2])
    /\ Len(ret.precautions) = 2

\* the lookup fails inside the try block: .str on a float column, or the
\* first token of a name that has none
InternalError(df, disease) ==
    /\ ~df.none
    /\ \/ FloatDiseaseColumn(df)
       \/ /\ Split(Lower(disease)) = <<>>
          /\ \A r \in 1..Len(df.rows) :
                df.rows[r].Disease.na \/ Lower(df.rows[r].Disease.s) # Lower(disease)

\* C14: get_precautions never raises, whatever the disease name (empty and
\* blank names included) and also without a precaution table; an internal
\* error is caught and the generic 4-entry list is returned.
C14_NeverRaises ==
    LookedUp =>
        /\ ~ret.raised
        /\ (precautions_df.none \/ InternalError(precautions_df, ret.arg))
              => ret.precautions = GenericPrecautions
        /\ ret.caught <=> InternalError(precautions_df, ret.arg)

\* a blank disease name made the lookup fail on a table that has rows, the
\* error was caught and the generic list returned
C14_Witness ==
    /\ LookedUp
    /\ ret.arg # <<>> /\ Strip(ret.arg) = <<>>
    /\ ~precautions_df.none /\ Len(precautions_df.rows) > 0
    /\ ~FloatDiseaseColumn(precautions_df)
    /\ ret.caught
    /\ ret.precautions = GenericPrecautions

----------------------------------------------------------------------------
(* Properties of the LocationService and of find_nearby_doctors.           *)

\* find_nearby_hospitals_real was called and returned a list
FacilitiesReturned ==
    lookup.op = "find_nearby_hospitals_real" /\ ~lookup.raised

\* C15: on every path (Google Places, OpenStreetMap, static list) the list
\* returned by find_nearby_hospitals_real is in ascending order of distance
\* and has at most 15 entries.
C15_SortedAtMostFifteen ==
    FacilitiesReturned =>
        /\ Len(lookup.hospitals) <= 15
        /\ \A i, j \in 1..Len(lookup.hospitals) :
              i < j => lookup.hospitals[i].distance <= lookup.hospitals[j].distance

\* a facility search (alone or within find_nearby_doctors) returned a list
\* for an origin that is a pair of numbers, and every search request of it
\* was answered
SearchAnswered ==
    /\ lookup.searched /\ ~lookup.raised /\ ~lookup.caught
    /\ lookup.origin.num
    /\ \A k \in 1..Len(lookup.calls) :
          lookup.calls[k].request \in {"places_nearby", "interpreter"}
              => lookup.calls[k].ok

\* the provider record carries coordinates
HasCoordinates(record) ==
    IF gmaps_client THEN record.geometry ELSE record.coords

\* the provider record is one that a search returns when nothing is wrong
\* with it (an Overpass element needs tags as well)
Eligible(record) ==
    IF gmaps_client THEN record.geometry ELSE record.tags /\ record.coords

\* the provider records that the last search was given
Offered == {lookup.offered[k] : k \in 1..Len(lookup.offered)}

\* C16: a provider record without coordinates never appears in the result
\* of a facility search, and it is skipped without aborting the others: the
\* records that do have coordinates are returned (as far as the 15 results
\* reach), each with its own lat and lon.
C16_MissingCoordinatesSkipped ==
    SearchAnswered =>
        /\ \A i \in 1..Len(lookup.hospitals) :
              \A record \in Offered :
                  ~HasCoordinates(record) => lookup.hospitals[i].name # record.name
        /\ ( /\ \E record \in Offered : ~HasCoordinates(record)
             /\ Cardinality({k \in 1..Len(lookup.offered) :
                                Eligible(lookup.offered[k])}) <= 15 )
              => \A record \in Offered :
                    Eligible(record)
                        => \E i \in 1..Len(lookup.hospitals) :
                              /\ lookup.hospitals[i].name = record.name
                              /\ lookup.hospitals[i].lat = record.lat
                              /\ lookup.hospitals[i].lon = record.lon

\* C17: every facility returned by a facility search carries the haversine
\* distance (R = 6371 km) between the origin of the search and its own lat
\* and lon, rounded to one decimal place.
C17_HaversineDistance ==
    (lookup.searched /\ ~lookup.raised /\ lookup.origin.num) =>
        \A i \in 1..Len(lookup.hospitals) :
            LET h == lookup.hospitals[i]
            IN  h.distance =
                    Round1(6371 * CentralAngle(lookup.origin.lat, lookup.origin.lon,
                                               h.lat, h.lon))

DoctorsCalled == lookup.op = "find_nearby_doctors"

\* C18: whatever the external calls do (timeout, exception, status other
\* than 200, malformed payload) in IP geolocation, geocoding and place
\* search, find_nearby_doctors returns an empty list or a facility list and
\* no exception leaves it.
C18_NoExceptionEscapes ==
    DoctorsCalled =>
        /\ ~lookup.raised
        /\ lookup.caught => lookup.hospitals = <<>> /\ ~lookup.located

\* ip-api.com gave a latitude that is not a number, the search request
\* failed, the static list raised on it, and find_nearby_doctors caught the
\* exception and returned an empty list
C18_Witness ==
    /\ DoctorsCalled
    /\ lookup.mode = "current"
    /\ ~lookup.origin.num
    /\ \E k \in 1..Len(lookup.calls) :
          lookup.calls[k].provider \in {"google", "overpass"} /\ ~lookup.calls[k].ok
    /\ lookup.caught
    /\ lookup.hospitals = <<>>

\* the location step of find_nearby_doctors returned None
LocationNotFound ==
    DoctorsCalled /\ lookup.mode \in {"current", "address"} /\ ~lookup.searched

\* a search request of the facility provider ended as outcome
ProviderEnded(outcome) ==
    /\ DoctorsCalled
    /\ \E k \in 1..Len(lookup.calls) :
          /\ lookup.calls[k].request \in {"places_nearby", "interpreter"}
          /\ lookup.calls[k].outcome = outcome

\* C19 as stated: when the location cannot be resolved or the facility
\* provider fails, find_nearby_doctors yields an empty facility list.
C19_EmptyOnFailure ==
    (LocationNotFound \/ ProviderEnded("raise") \/ ProviderEnded("unusable"))
        => lookup.hospitals = <<>>

\* C19 as amended: when the location cannot be resolved, find_nearby_doctors
\* yields an empty list and no coordinates; when a search request of the
\* provider raises, it yields the static two-entry list around the origin,
\* with the origin (an empty list and no coordinates only if the origin is
\* not a pair of numbers); when Overpass answers with a status other than
\* 200, it yields an empty list with the origin.
C19_StaticListOnFailure ==
    /\ LocationNotFound => lookup.hospitals = <<>> /\ ~lookup.located
    /\ (ProviderEnded("raise") /\ lookup.origin.num) =>
          /\ Len(lookup.hospitals) = 2
          /\ \A i \in 1..2 :
                /\ Abs(lookup.hospitals[i].lat - lookup.origin.lat) = 1
                /\ Abs(lookup.hospitals[i].lon - lookup.origin.lon) = 1
          /\ lookup.hospitals[1].distance = 25 /\ lookup.hospitals[2].distance = 18
          /\ lookup.located /\ lookup.coords = lookup.origin
    /\ (ProviderEnded("raise") /\ ~lookup.origin.num) =>
          lookup.hospitals = <<>> /\ ~lookup.located
    /\ ProviderEnded("unusable") =>
          lookup.hospitals = <<>> /\ lookup.located /\ lookup.coords = lookup.origin

\* the address was geocoded, the second places_nearby request raised after
\* places had been collected, and the static list was returned
C19_Witness ==
    /\ DoctorsCalled
    /\ lookup.mode = "address"
    /\ ProviderEnded("raise")
    /\ \E k \in 1..Len(lookup.calls) : lookup.calls[k].request = "place"
    /\ Len(lookup.hospitals) = 2
    /\ lookup.path = "fallback"

LookupMade == lookup.op # "none"

\* the positions of the call log that hold the request of the provider
Requests(provider, request) ==
    {k \in 1..Len(lookup.calls) :
        lookup.calls[k].provider = provider /\ lookup.calls[k].request = request}

\* C20 as stated: a lookup tries each provider at most once: a provider
\* that has failed is not called again within the lookup, and after the
\* failure of a search request the lookup returns without a further call.
C20_FailedProviderNotCalledAgain ==
    LookupMade =>
        /\ \A i, j \in 1..Len(lookup.calls) :
              (i < j /\ lookup.calls[i].provider = lookup.calls[j].provider)
                  => lookup.calls[i].ok
        /\ \A i \in 1..Len(lookup.calls) :
              ( /\ lookup.calls[i].request \in {"places_nearby", "interpreter"}
                /\ ~lookup.calls[i].ok ) => i = Len(lookup.calls)

\* C20 as amended: a lookup makes each request at most once (ipinfo, ipify,
\* ip-api, geocode, Overpass once; places_nearby twice, for hospitals and for
\* doctors; place() once for each place), it never uses both Google and
\* Overpass, a provider whose request other than place() has failed is not
\* called again, and the failure of a search request is the last call of the
\* lookup.  A failed place() request is ignored and Google is called again.
C20_NoRequestRepeated ==
    LookupMade =>
        /\ \A q \in {<<"ipinfo", "json">>, <<"ipify", "ip">>, <<"ip-api", "json">>,
                      <<"nominatim", "geocode">>, <<"overpass", "interpreter">>} :
              Cardinality(Requests(q[1], q[2])) <= 1
        /\ Cardinality(Requests("google", "places_nearby")) <= 2
        /\ Cardinality(Requests("google", "place")) <= Len(lookup.offered)
        /\ Requests("google", "places_nearby") = {}
              \/ Requests("overpass", "interpreter") = {}
        /\ \A i, j \in 1..Len(lookup.calls) :
              ( /\ i < j
                /\ lookup.calls[i].provider = lookup.calls[j].provider
                /\ lookup.calls[i].request # "place" ) => lookup.calls[i].ok
        /\ \A i \in 1..Len(lookup.calls) :
              ( /\ lookup.calls[i].request \in {"places_nearby", "interpreter"}
                /\ ~lookup.calls[i].ok ) => i = Len(lookup.calls)

\* ipinfo.io failed, ipify and ip-api.com located the user, a place()
\* request failed, Google was called again and its second search raised:
\* the static list was returned after six or more requests
C20_Witness ==
    /\ DoctorsCalled
    /\ lookup.mode = "current"
    /\ Len(lookup.calls) >= 6
    /\ ~lookup.calls[1].ok /\ lookup.calls[3].ok
    /\ \E k \in 1..Len(lookup.calls) :
          lookup.calls[k].request = "place" /\ ~lookup.calls[k].ok
    /\ ~lookup.calls[Len(lookup.calls)].ok
    /\ lookup.path = "fallback"
    /\ Len(lookup.hospitals) = 2

----------------------------------------------------------------------------
(* Properties of the assistant as a whole.                                 *)

\* C21: no query changes the knowledge base: once initialisation is over,
\* every step (predict_disease, get_precautions, find_nearby_doctors, with
\* or without an error) leaves model, diseases_df, precautions_df,
\* symptoms_list and diseases_list as they were.
C21_QueriesKeepKnowledgeBase ==
    [][pc = "ready" =>
          UNCHANGED <<model, diseases_df, precautions_df, symptoms_list,
                      diseases_list>>]_vars

\* after initialisation a precaution lookup failed and was caught, and a
\* facility lookup raised and was caught
C21_Witness ==
    /\ pc = "ready"
    /\ ~model.none /\ model.fitted /\ ~precautions_df.none
    /\ LookedUp /\ ret.caught
    /\ DoctorsCalled /\ lookup.caught

\* C22: the knowledge base is loaded and the matcher trained exactly once
\* per process, however many reruns and sessions follow: at most one
\* assistant is ever constructed, and every session uses that one.  (Stated
\* for files on which the constructor does not raise.)
C22_LoadedOncePerProcess ==
    ~ConstructorRaises(files) =>
        /\ Constructions <= 1
        /\ \A s, t \in Sessions :
              (session_state[s] # 0 /\ session_state[t] # 0)
                  => session_state[s] = session_state[t]

\* the symptom cells of the disease table that hold a text
RawTokens ==
    {diseases_df.rows[r].Symptoms[c].s :
        r \in 1..Len(diseases_df.rows), c \in 1..diseases_df.ncols} \ {<<>>}

\* C23: the normalisation of symptoms (trim, then underscores to spaces)
\* is idempotent: normalising a normalised token returns it unchanged.
C23_NormaliseIdempotent ==
    ~diseases_df.none =>
        \A t \in RawTokens :
            NormalizeSymptom(NormalizeSymptom(t)) = NormalizeSymptom(t)

SymptomAt(r, c) == NormalizeSymptom(diseases_df.rows[r].Symptoms[c].s)
KeptAt(r, c) == ~diseases_df.rows[r].Symptoms[c].na /\ SymptomAt(r, c) # <<>>

\* the rows with at least one non-empty symptom after normalisation
RowsWithSymptom ==
    {r \in 1..Len(diseases_df.rows) : \E c \in 1..diseases_df.ncols : KeptAt(r, c)}

\* the symptoms of the first c columns of row r, joined by single spaces
RECURSIVE DocumentUpTo(_, _)
DocumentUpTo(r, c) ==
    IF c = 0 THEN <<>>
    ELSE IF ~KeptAt(r, c) THEN DocumentUpTo(r, c - 1)
    ELSE IF \A b \in 1..(c - 1) : ~KeptAt(r, b) THEN SymptomAt(r, c)
    ELSE DocumentUpTo(r, c - 1) \o <<32>> \o SymptomAt(r, c)

\* C25: prepare_model builds one training document for each row that has a
\* non-empty symptom after normalisation and none for the other rows; the
\* document is the row's symptoms in column order joined by single spaces,
\* its label is the row's disease, and rows of one disease each give theirs.
C25_OneDocumentPerUsableRow ==
    (pc = "ready" /\ ~diseases_df.none) =>
        /\ Len(X_train) = Cardinality(RowsWithSymptom)
        /\ Len(y_train) = Len(X_train)
        /\ \A r \in RowsWithSymptom :
              LET p == Cardinality({q \in RowsWithSymptom : q <= r})
              IN  /\ X_train[p] = DocumentUpTo(r, diseases_df.ncols)
                  /\ y_train[p] = diseases_df.rows[r].Disease

\* a table with two usable rows of one disease and a row without symptoms
C25_Witness ==
    /\ pc = "ready"
    /\ ~diseases_df.none
    /\ Len(X_train) < Len(diseases_df.rows)
    /\ \E p, q \in 1..Len(X_train) :
          p < q /\ y_train[p] = y_train[q] /\ X_train[p] # X_train[q]

\* C26: after loading, symptoms_list holds each distinct normalised symptom
\* once, and every entry is non-empty, has no underscore, no whitespace at
\* either end and no run of whitespace inside.
C26_NormalisedTokens ==
    (pc = "ready" /\ ~diseases_df.none /\ ~precautions_df.none) =>
        /\ \A i, j \in 1..Len(symptoms_list) :
              symptoms_list[i] = symptoms_list[j] => i = j
        /\ {NormalizeSymptom(t) : t \in RawTokens} \ {<<>>} = Range(symptoms_list)
        /\ \A i \in 1..Len(symptoms_list) :
              LET e == symptoms_list[i]
              IN  /\ e # <<>>
                  /\ 95 \notin Range(e)
                  /\ Strip(e) = e
                  /\ \A k \in 1..(Len(e) - 1) : ~(e[k] = 32 /\ e[k + 1] = 32)

\* C27: find_nearby_doctors returns None for the coordinates exactly when
\* the location could not be determined or an exception was caught; a
\* non-empty facility list comes with coordinates; with use_current_location
\* the entered location is ignored and the geocoder is not called.
C27_CoordinatesAndLocationSource ==
    DoctorsCalled =>
        /\ ~lookup.located <=> (~lookup.searched \/ lookup.caught)
        /\ lookup.hospitals # <<>> => lookup.located
        /\ lookup.mode = "current" => Requests("nominatim", "geocode") = {}
        /\ lookup.mode = "address" =>
              Cardinality(Requests("nominatim", "geocode")) = 1

\* the location came from the IP address after a provider failed, and
\* facilities were returned with it
C27_Witness ==
    /\ DoctorsCalled
    /\ lookup.mode = "current"
    /\ \E k \in 1..Len(lookup.calls) :
          lookup.calls[k].provider = "ipinfo" /\ ~lookup.calls[k].ok
    /\ lookup.located
    /\ lookup.coords = lookup.origin
    /\ lookup.hospitals # <<>>

\* a places_nearby request of the Google client raised during the lookup
PlacesSearchRaised ==
    /\ LookupMade
    /\ \E k \in Requests("google", "places_nearby") : lookup.calls[k].outcome = "raise"

C29_ParallelLists ==
    Predicted =>
        /\ Len(ret.predictions) = Len(ret.confidences)
        /\ \A i, j \in 1..Len(ret.predictions) :
              ret.predictions[i] = ret.predictions[j] => i = j
        /\ \A i \in 1..Len(ret.predictions) :
              /\ \E r \in 1..Len(diseases_df.rows) :
                    diseases_df.rows[r].Disease = ret.predictions[i]
              /\ ret.confidences[i].num * Sum(LastProba)
                    = 100 * LastProba[ClassIndex(ret.predictions[i])]
                          * ret.confidences[i].den

\* the training table has several rows of one disease and the call returned
\* more than one disease
C29_Witness ==
    /\ Ranked
    /\ \E p, q \in 1..Len(y_train) : p # q /\ y_train[p] = y_train[q]
    /\ Len(ret.predictions) >= 2
    /\ \E i, j \in 1..Len(ret.confidences) :
          ret.confidences[i].num # ret.confidences[j].num

\* the functions of main(), in the order of its calls
LauncherOrder ==
    <<"check_python_version", "check_requirements", "check_data_files", "launch_app">>

\* C30: launch_app runs only after check_python_version, check_requirements
\* and check_data_files each returned True, in that order; the first check
\* that fails ends main() and neither a later check nor launch_app runs.
C30_LaunchAfterThreeChecks ==
    /\ Len(launcher.called) <= Len(LauncherOrder)
    /\ \A k \in 1..Len(launcher.called) :
          /\ launcher.called[k].fn = LauncherOrder[k]
          /\ k < Len(launcher.called) => launcher.called[k].result = "True"
    /\ \A k \in 1..Len(launcher.called) :
          (k <= 3 /\ launcher.called[k].result # "True") =>
              /\ k = Len(launcher.called)
              /\ launcher.pc \in {"returned", "crashed"}

\* the application was launched on a machine where pip had to install a
\* package
C30_Witness ==
    /\ Len(launcher.called) = 4
    /\ launcher.called[4].fn = "launch_app"
    /\ launcher.pip # <<>>
    /\ launcher.pc = "returned"

====
